---- MODULE Spec2Model ----
(***************************************************************************)
(* Dusky Control Center (user_scripts/dusky_system/dusky_control_center.py) *)
(* as a state machine: the dependency bootstrap, the configuration loader,  *)
(* the UI builder's activation and the command dispatcher of the Run        *)
(* buttons.                                                                 *)
(*                                                                          *)
(* Python strings are sequences of one-character strings, so that strip,    *)
(* the substring test and os.path.expandvars are computed character by      *)
(* character.  Python values of the configuration tree are tagged records.  *)
(***************************************************************************)
EXTENDS Integers, Sequences, FiniteSets, TLC

VARIABLES
    pc,          \* position of the process: "boot", "main", "started", "running", ...
    restarts,    \* number of os.execv restarts done by the bootstrap
    deps,        \* importable bindings / loadable toolkit of the machine
    path,        \* terminal names shutil.which resolves
    environ,     \* os.environ: variable name -> value
    missing,     \* check_dependencies: the list of missing packages it recorded
    installCall, \* check_dependencies: the subprocess.check_call it made, or NoCall
    exitStatus,  \* exit status of the process once pc = "exited", else -1
    config,      \* DuskyControlCenter.config
    terminal,    \* DuskyControlCenter._terminal
    file,        \* the configuration file as load_config found it, or NoFile
    rows,        \* item data bound to the Run buttons of the presented window
    click,       \* the last _on_run_clicked invocation, or NoClick
    probe        \* a direct call of build_terminal_cmd: its arguments and result

vars == <<pc, restarts, deps, path, environ, missing, installCall, exitStatus,
          config, terminal, file, rows, click, probe>>

----------------------------------------------------------------------------
(* Bounds of the model *)

MaxRestarts == 2

----------------------------------------------------------------------------
(* Python values *)

PyNone == [t |-> "none"]
PyBool(b) == [t |-> "bool", b |-> b]
PyInt(n) == [t |-> "int", n |-> n]
PyStr(s) == [t |-> "str", s |-> s]
PyList(l) == [t |-> "list", l |-> l]
PyDict(d) == [t |-> "dict", d |-> d]

EmptyDict == PyDict(<<>>)

\* bool(v)
Truthy(v) ==
    CASE v.t = "none" -> FALSE
      [] v.t = "bool" -> v.b
      [] v.t = "int"  -> v.n # 0
      [] v.t = "str"  -> v.s # <<>>
      [] v.t = "list" -> v.l # <<>>
      [] v.t = "dict" -> DOMAIN v.d # {}

\* d.get(key, default) on a dict
Get(v, key, default) == IF key \in DOMAIN v.d THEN v.d[key] ELSE default

\* only a dict has .get
HasGet(v) == v.t = "dict"

----------------------------------------------------------------------------
(* String literals *)

APP_TITLE ==
    <<"D", "u", "s", "k", "y", " ", "C", "o", "n", "t", "r", "o", "l", " ", "C", "e",
      "n", "t", "e", "r">>
CONFIG_FILENAME ==
    <<"d", "u", "s", "k", "y", "_", "c", "o", "n", "f", "i", "g", ".", "y", "a", "m",
      "l">>
kitty == <<"k", "i", "t", "t", "y">>
foot == <<"f", "o", "o", "t">>
alacritty == <<"a", "l", "a", "c", "r", "i", "t", "t", "y">>
wezterm == <<"w", "e", "z", "t", "e", "r", "m">>
gnome_terminal == <<"g", "n", "o", "m", "e", "-", "t", "e", "r", "m", "i", "n", "a", "l">>
konsole == <<"k", "o", "n", "s", "o", "l", "e">>
xfce4_terminal == <<"x", "f", "c", "e", "4", "-", "t", "e", "r", "m", "i", "n", "a", "l">>
WAIT_SUFFIX ==
    <<";", " ", "e", "c", "h", "o", " ", "\"", "\"", ";", " ", "e", "c", "h", "o", " ",
      "\"", "P", "r", "e", "s", "s", " ", "E", "n", "t", "e", "r", " ", "t", "o", " ",
      "c", "l", "o", "s", "e", ".", ".", ".", "\"", ";", " ", "r", "e", "a", "d">>
S_uwsm_app == <<"u", "w", "s", "m", "-", "a", "p", "p">>
S_dashdash == <<"-", "-">>
S_sh == <<"s", "h">>
S_dash_c == <<"-", "c">>
S_dash_e == <<"-", "e">>
S_title_flag == <<"-", "-", "t", "i", "t", "l", "e">>
S_title_eq == <<"-", "-", "t", "i", "t", "l", "e", "=">>
S_wait_flag == <<"-", "-", "w", "a", "i", "t">>
S_start == <<"s", "t", "a", "r", "t">>
S_installer == <<" ", "I", "n", "s", "t", "a", "l", "l", "e", "r">>
S_pacman ==
    <<"s", "u", "d", "o", " ", "p", "a", "c", "m", "a", "n", " ", "-", "S", " ", "-",
      "-", "n", "e", "e", "d", "e", "d">>
S_python_gobject ==
    <<"p", "y", "t", "h", "o", "n", "-", "g", "o", "b", "j", "e", "c", "t">>
S_python_yaml == <<"p", "y", "t", "h", "o", "n", "-", "y", "a", "m", "l">>
S_gtk4 == <<"g", "t", "k", "4">>
S_libadwaita == <<"l", "i", "b", "a", "d", "w", "a", "i", "t", "a">>
S_missing_prefix ==
    <<"C", "o", "n", "f", "i", "g", " ", "f", "i", "l", "e", " ", "m", "i", "s", "s",
      "i", "n", "g", ":", " ">>
E_permission ==
    <<"[", "E", "r", "r", "n", "o", " ", "1", "3", "]", " ", "P", "e", "r", "m", "i",
      "s", "s", "i", "o", "n", " ", "d", "e", "n", "i", "e", "d">>
E_yaml ==
    <<"c", "o", "u", "l", "d", " ", "n", "o", "t", " ", "f", "i", "n", "d", " ", "e",
      "x", "p", "e", "c", "t", "e", "d", " ", "'", ":", "'">>
S_Untitled == <<"U", "n", "t", "i", "t", "l", "e", "d">>
S_Unknown == <<"U", "n", "k", "n", "o", "w", "n">>
S_system_help ==
    <<"s", "y", "s", "t", "e", "m", "-", "h", "e", "l", "p", "-", "s", "y", "m", "b",
      "o", "l", "i", "c">>
S_text_generic ==
    <<"t", "e", "x", "t", "-", "x", "-", "g", "e", "n", "e", "r", "i", "c", "-", "s",
      "y", "m", "b", "o", "l", "i", "c">>
S_Error == <<"E", "r", "r", "o", "r">>
S_Config_Error == <<"C", "o", "n", "f", "i", "g", " ", "E", "r", "r", "o", "r">>

----------------------------------------------------------------------------
(* TERMINAL UTILITIES *)

\* Supported terminals in order of preference
TERMINALS ==
    <<kitty, foot, alacritty, wezterm, gnome_terminal, konsole, xfce4_terminal>>

TerminalNames == {TERMINALS[i] : i \in 1..Len(TERMINALS)}

\* the terminals from position i on, probed in order against the search path
RECURSIVE FirstAvailable(_, _)
FirstAvailable(i, which) ==
    IF i > Len(TERMINALS) THEN PyNone
    ELSE IF TERMINALS[i] \in which THEN PyStr(TERMINALS[i])
    ELSE FirstAvailable(i + 1, which)

find_terminal_reversed(which) ==
    LET hits == {i \in 1..Len(TERMINALS) : TERMINALS[i] \in which}
    IN  IF hits = {} THEN PyNone
        ELSE PyStr(TERMINALS[CHOOSE i \in hits : \A j \in hits : j <= i])

find_terminal(which) == FirstAvailable(1, which)

build_terminal_cmd_no_wait(term, title, shell_cmd, wait) ==
    LET full_cmd == shell_cmd
    IN  CASE term = kitty          -> <<term, S_title_flag, title, S_sh, S_dash_c, full_cmd>>
          [] term = foot           -> <<term, S_title_flag, title, S_sh, S_dash_c, full_cmd>>
          [] term = alacritty      -> <<term, S_title_flag, title, S_dash_e, S_sh, S_dash_c, full_cmd>>
          [] term = wezterm        -> <<term, S_start, S_dashdash, S_sh, S_dash_c, full_cmd>>
          [] term = gnome_terminal -> <<term, S_title_eq \o title, S_wait_flag, S_dashdash,
                                        S_sh, S_dash_c, full_cmd>>
          [] term = konsole        -> <<term, S_title_flag, title, S_dash_e, S_sh, S_dash_c, full_cmd>>
          [] OTHER                 -> <<term, S_dash_e, S_sh, S_dash_c, full_cmd>>

build_terminal_cmd(term, title, shell_cmd, wait) ==
    LET full_cmd == IF wait THEN shell_cmd \o WAIT_SUFFIX ELSE shell_cmd
    IN  CASE term = kitty          -> <<term, S_title_flag, title, S_sh, S_dash_c, full_cmd>>
          [] term = foot           -> <<term, S_title_flag, title, S_sh, S_dash_c, full_cmd>>
          [] term = alacritty      -> <<term, S_title_flag, title, S_dash_e, S_sh, S_dash_c, full_cmd>>
          [] term = wezterm        -> <<term, S_start, S_dashdash, S_sh, S_dash_c, full_cmd>>
          [] term = gnome_terminal -> <<term, S_title_eq \o title, S_wait_flag, S_dashdash,
                                        S_sh, S_dash_c, full_cmd>>
          [] term = konsole        -> <<term, S_title_flag, title, S_dash_e, S_sh, S_dash_c, full_cmd>>
          [] OTHER                 -> <<term, S_dash_e, S_sh, S_dash_c, full_cmd>>

----------------------------------------------------------------------------
(* DEPENDENCY BOOTSTRAP *)

\* what the machine can provide: the two importable modules and the
\* loadable Gtk 4.0 / Adw 1 typelibs
AllDeps == {"gi", "yaml", "gtk"}

python_deps ==
    << [module |-> "gi",   package |-> S_python_gobject],
       [module |-> "yaml", package |-> S_python_yaml] >>

Range(q) == {q[i] : i \in 1..Len(q)}

\* if package not in missing: missing.append(package)
AddMissing(m, package) == IF package \in Range(m) THEN m ELSE Append(m, package)

\* 1. Check Python Modules: importlib.util.find_spec(module) is None
RECURSIVE MissingModules(_, _, _)
MissingModules(i, present, m) ==
    IF i > Len(python_deps) THEN m
    ELSE MissingModules(i + 1, present,
            IF python_deps[i].module \in present THEN m
            ELSE AddMissing(m, python_deps[i].package))

\* 2. Check System Libraries (only if Python bindings exist)
MissingPackages(present) ==
    LET m == MissingModules(1, present, <<>>)
    IN  IF S_python_gobject \notin Range(m) /\ "gtk" \notin present
        THEN AddMissing(AddMissing(m, S_gtk4), S_libadwaita)
        ELSE m

\* ' '.join(packages)
RECURSIVE JoinSpace(_)
JoinSpace(q) ==
    IF q = <<>> THEN <<>>
    ELSE IF Len(q) = 1 THEN q[1]
    ELSE q[1] \o <<" ">> \o JoinSpace(Tail(q))

NoCall == [t |-> "nocall"]

\* subprocess.check_call(cmd): the streams are inherited and the call waits
CheckCall(argv) ==
    [t |-> "call", args |-> argv, shell |-> FALSE, start_new_session |-> FALSE,
     stdin |-> "inherit", stdout |-> "inherit", stderr |-> "inherit",
     waited |-> TRUE]

CheckCallOutcomes == {"ok", "CalledProcessError", "FileNotFoundError", "OSError"}

check_dependencies_returns_anyway ==
    /\ pc = "boot"
    /\ missing' = MissingPackages(deps)
    /\ pc' = "main"
    /\ installCall' = NoCall
    /\ UNCHANGED <<restarts, deps, path, environ, exitStatus, config, terminal, file,
                   rows, click, probe>>

\* check_dependencies(), run at import time; the process is at its start
check_dependencies ==
    /\ pc = "boot"
    /\ LET m == MissingPackages(deps)
           term == find_terminal(path)
       IN  /\ missing' = m
           /\ IF m = <<>>
              THEN \* nothing missing: return
                   /\ pc' = "main"
                   /\ installCall' = NoCall
                   /\ UNCHANGED <<restarts, deps, exitStatus>>
              ELSE IF term = PyNone
              THEN \* no terminal: print the manual instructions, sys.exit(1)
                   /\ pc' = "exited"
                   /\ exitStatus' = 1
                   /\ installCall' = NoCall
                   /\ UNCHANGED <<restarts, deps>>
              ELSE LET pacman_cmd == S_pacman \o <<" ">> \o JoinSpace(m)
                       cmd == build_terminal_cmd(term.s, APP_TITLE \o S_installer,
                                                 pacman_cmd, TRUE)
                   IN  /\ installCall' = CheckCall(cmd)
                       /\ \E outcome \in CheckCallOutcomes :
                            IF outcome = "ok"
                            THEN \* os.execv(sys.executable, ...): the new image
                                 \* starts over; the terminal's status is that of
                                 \* the trailing read, so the packages may still
                                 \* be missing
                                 /\ restarts < MaxRestarts
                                 /\ restarts' = restarts + 1
                                 /\ pc' = "boot"
                                 /\ deps' \in {deps, AllDeps}
                                 /\ UNCHANGED exitStatus
                            ELSE \* caught: sys.exit(1); uncaught OSError: the
                                 \* interpreter exits with status 1
                                 /\ pc' = "exited"
                                 /\ exitStatus' = 1
                                 /\ UNCHANGED <<restarts, deps>>
    /\ UNCHANGED <<path, environ, config, terminal, file, rows, click, probe>>

----------------------------------------------------------------------------
(* MAIN APPLICATION: the configuration loader *)

NoFile == [kind |-> "nofile", data |-> PyNone]

\* str(e) of the exception open() or yaml.safe_load() raised
ErrorMessage(f) == IF f.kind = "unreadable" THEN E_permission ELSE E_yaml

_error_config(message) ==
    PyDict([pages |-> PyList(<<
        PyDict([name |-> PyStr(S_Error),
                groups |-> PyList(<<
                    PyDict([title |-> PyStr(S_Error),
                            items |-> PyList(<<
                                PyDict([title |-> PyStr(S_Config_Error),
                                        description |-> PyStr(message)]) >>)]) >>)]) >>)])

\* f is the state of the file beside the script: "missing" (not a regular
\* file), "unreadable" (open raises), "unparseable" (yaml.safe_load raises)
\* or "parsed" with the value yaml.safe_load returned
load_config(f) ==
    IF f.kind = "missing"
    THEN _error_config(S_missing_prefix \o CONFIG_FILENAME)
    ELSE IF f.kind \in {"unreadable", "unparseable"}
    THEN _error_config(ErrorMessage(f))
    ELSE IF Truthy(f.data) THEN f.data ELSE PyDict([pages |-> PyList(<<>>)])

----------------------------------------------------------------------------
(* MAIN APPLICATION: the UI builder *)

DEFAULT_WIDTH == 950
DEFAULT_HEIGHT == 650

\* for x in v: a list, a string (its characters) and a dict (its keys) can be
\* iterated, None and numbers raise TypeError
IterOk(v) == v.t \in {"list", "str", "dict"}

RECURSIVE SetToSeq(_)
SetToSeq(S) ==
    IF S = {} THEN <<>>
    ELSE LET x == CHOOSE y \in S : TRUE IN <<x>> \o SetToSeq(S \ {x})

Elems(v) ==
    CASE v.t = "list" -> v.l
      [] v.t = "str"  -> [i \in 1..Len(v.s) |-> PyStr(<<v.s[i]>>)]
      [] v.t = "dict" -> LET ks == SetToSeq(DOMAIN v.d)
                         IN  [i \in 1..Len(ks) |-> PyStr(<<ks[i]>>)]

\* what a str parameter of the toolkit accepts (TypeError otherwise)
IsStr(v) == v.t = "str"
\* what an int parameter of the toolkit accepts
IsInt(v) == v.t \in {"int", "bool"}
\* an icon name may be None
IconOk(v) == v.t \in {"str", "none"}

\* _build_row completes without an exception
_build_row(data) ==
    /\ HasGet(data)
    /\ IsStr(Get(data, "title", PyStr(S_Unknown)))
    /\ IsStr(Get(data, "description", PyStr(<<>>)))
    /\ IconOk(Get(data, "icon", PyStr(S_text_generic)))

\* _build_group completes without an exception
_build_group(data) ==
    /\ HasGet(data)
    /\ IsStr(Get(data, "title", PyStr(<<>>)))
    /\ IterOk(Get(data, "items", PyList(<<>>)))
    /\ LET items == Elems(Get(data, "items", PyList(<<>>)))
       IN  \A i \in 1..Len(items) : _build_row(items[i])

\* _build_page completes without an exception
_build_page(data) ==
    /\ HasGet(data)
    /\ IsStr(Get(data, "name", PyStr(S_Untitled)))
    /\ IconOk(Get(data, "icon", PyStr(S_system_help)))
    /\ IterOk(Get(data, "groups", PyList(<<>>)))
    /\ LET groups == Elems(Get(data, "groups", PyList(<<>>)))
       IN  \A i \in 1..Len(groups) : _build_group(groups[i])

\* do_activate completes without an exception and presents the window
Activates(cfg) ==
    /\ HasGet(cfg)
    /\ HasGet(Get(cfg, "window", EmptyDict))
    /\ LET win_cfg == Get(cfg, "window", EmptyDict)
       IN  /\ IsStr(Get(win_cfg, "title", PyStr(APP_TITLE)))
           /\ IsInt(Get(win_cfg, "width", PyInt(DEFAULT_WIDTH)))
           /\ IsInt(Get(win_cfg, "height", PyInt(DEFAULT_HEIGHT)))
    /\ IterOk(Get(cfg, "pages", PyList(<<>>)))
    /\ LET pages == Elems(Get(cfg, "pages", PyList(<<>>)))
       IN  \A i \in 1..Len(pages) : _build_page(pages[i])

RECURSIVE Flatten(_)
Flatten(qq) == IF qq = <<>> THEN <<>> ELSE Head(qq) \o Flatten(Tail(qq))

\* btn.connect("clicked", self._on_run_clicked, data): the item data of the
\* Run buttons of a configuration that activates, in order
RunButtons(cfg) ==
    LET pages == Elems(Get(cfg, "pages", PyList(<<>>)))
        ofGroup(g) == Elems(Get(g, "items", PyList(<<>>)))
        ofPage(p) == LET groups == Elems(Get(p, "groups", PyList(<<>>)))
                     IN  Flatten([i \in 1..Len(groups) |-> ofGroup(groups[i])])
    IN  Flatten([i \in 1..Len(pages) |-> ofPage(pages[i])])

----------------------------------------------------------------------------
(* MAIN APPLICATION: the command dispatcher *)

Whitespace == {" ", "\t", "\n"}

\* str.strip()
RECURSIVE LStrip(_)
LStrip(s) == IF s # <<>> /\ Head(s) \in Whitespace THEN LStrip(Tail(s)) ELSE s
RECURSIVE RStrip(_)
RStrip(s) ==
    IF s # <<>> /\ s[Len(s)] \in Whitespace THEN RStrip(SubSeq(s, 1, Len(s) - 1)) ELSE s
Strip(s) == RStrip(LStrip(s))

\* needle in s
Contains(s, needle) ==
    \E i \in 0..(Len(s) - Len(needle)) : SubSeq(s, i + 1, i + Len(needle)) = needle

\* \w of the ASCII pattern of os.path.expandvars
WordChars ==
    {"a", "b", "c", "d", "e", "f", "g", "h", "i", "j", "k", "l", "m", "n", "o", "p",
     "q", "r", "s", "t", "u", "v", "w", "x", "y", "z", "A", "B", "C", "D", "E", "F",
     "G", "H", "I", "J", "K", "L", "M", "N", "O", "P", "Q", "R", "S", "T", "U", "V",
     "W", "X", "Y", "Z", "0", "1", "2", "3", "4", "5", "6", "7", "8", "9", "_"}

\* the length of the longest run of word characters of s from position i
RECURSIVE WordLen(_, _)
WordLen(s, i) ==
    IF i <= Len(s) /\ s[i] \in WordChars THEN 1 + WordLen(s, i + 1) ELSE 0

\* the position of the first "}" of s at or after position i, or 0
RECURSIVE BraceEnd(_, _)
BraceEnd(s, i) ==
    IF i > Len(s) THEN 0
    ELSE IF s[i] = "}" THEN i
    ELSE BraceEnd(s, i + 1)

\* os.path.expandvars(s) from position i on: $NAME and ${NAME} are replaced
\* by the value of NAME; an unknown name is left as written; a value is not
\* expanded again
RECURSIVE ExpandFrom(_, _, _)
ExpandFrom(s, i, env) ==
    IF i > Len(s) THEN <<>>
    ELSE IF s[i] # "$" THEN <<s[i]>> \o ExpandFrom(s, i + 1, env)
    ELSE LET w == WordLen(s, i + 1)
             close == IF i + 1 <= Len(s) /\ s[i + 1] = "{" THEN BraceEnd(s, i + 2) ELSE 0
             j == IF w > 0 THEN i + w + 1 ELSE close + 1
             name == IF w > 0 THEN SubSeq(s, i + 1, i + w) ELSE SubSeq(s, i + 2, close - 1)
         IN  IF w = 0 /\ close = 0 THEN <<"$">> \o ExpandFrom(s, i + 1, env)
             ELSE IF name \in DOMAIN env THEN env[name] \o ExpandFrom(s, j, env)
             ELSE SubSeq(s, i, j - 1) \o ExpandFrom(s, j, env)

expandvars(s, env) == ExpandFrom(s, 1, env)

\* an argument list, as opposed to a command string (PyStr)
ArgV(l) == [t |-> "argv", l |-> l]

\* subprocess.Popen(args, ...): the call is recorded with its keyword arguments;
\* Popen does not wait for the child
Popen(args, shell, start_new_session, stdin, stdout, stderr) ==
    [t |-> "call", args |-> args, shell |-> shell,
     start_new_session |-> start_new_session,
     stdin |-> stdin, stdout |-> stdout, stderr |-> stderr, waited |-> FALSE]

_spawn_process_inherit(cmd, wrap_uwsm, popen_ok) ==
    LET args == IF Truthy(wrap_uwsm)
                THEN ArgV(<<S_uwsm_app, S_dashdash, S_sh, S_dash_c, cmd>>)
                ELSE PyStr(cmd)
        use_shell == ~Truthy(wrap_uwsm)
    IN  [calls |-> << Popen(args, use_shell, FALSE, "inherit", "inherit", "inherit") >>,
         raised |-> ~popen_ok, background |-> FALSE]

\* _spawn_process(cmd, wrap_uwsm); popen_ok: Popen did not raise
_spawn_process(cmd, wrap_uwsm, popen_ok) ==
    LET args == IF Truthy(wrap_uwsm)
                THEN ArgV(<<S_uwsm_app, S_dashdash, S_sh, S_dash_c, cmd>>)
                ELSE PyStr(cmd)
        \* shell=True is needed if we are NOT wrapping in UWSM array
        use_shell == ~Truthy(wrap_uwsm)
    IN  [calls |-> << Popen(args, use_shell, TRUE, "DEVNULL", "DEVNULL", "DEVNULL") >>,
         raised |-> ~popen_ok, background |-> FALSE]

_spawn_terminal_unwrapped(term, cmd, popen_ok) ==
    IF ~Truthy(term)
    THEN [_spawn_process(cmd, PyBool(TRUE), popen_ok) EXCEPT !.background = TRUE]
    ELSE LET term_args == build_terminal_cmd(term.s, APP_TITLE, cmd, TRUE)
         IN  [calls |-> << Popen(ArgV(term_args), FALSE, TRUE,
                                 "DEVNULL", "DEVNULL", "DEVNULL") >>,
              raised |-> ~popen_ok, background |-> FALSE]

_spawn_terminal_raw_fallback(term, cmd, popen_ok) ==
    IF ~Truthy(term)
    THEN [_spawn_process(cmd, PyBool(FALSE), popen_ok) EXCEPT !.background = TRUE]
    ELSE LET term_args == build_terminal_cmd(term.s, APP_TITLE, cmd, TRUE)
             final_args == <<S_uwsm_app, S_dashdash>> \o term_args
         IN  [calls |-> << Popen(ArgV(final_args), FALSE, TRUE,
                                 "DEVNULL", "DEVNULL", "DEVNULL") >>,
              raised |-> ~popen_ok, background |-> FALSE]

\* _spawn_terminal(cmd) with self._terminal = term
_spawn_terminal(term, cmd, popen_ok) ==
    IF ~Truthy(term)
    THEN \* "No terminal found, running in background."
         [_spawn_process(cmd, PyBool(TRUE), popen_ok) EXCEPT !.background = TRUE]
    ELSE LET term_args == build_terminal_cmd(term.s, APP_TITLE, cmd, TRUE)
             \* Terminals are GUI apps, so we ALWAYS wrap them in uwsm-app
             final_args == <<S_uwsm_app, S_dashdash>> \o term_args
         IN  [calls |-> << Popen(ArgV(final_args), FALSE, TRUE,
                                 "DEVNULL", "DEVNULL", "DEVNULL") >>,
              raised |-> ~popen_ok, background |-> FALSE]

UseUwsm_no_token_check(expanded_cmd, config_uwsm) == config_uwsm

\* the uwsm flag the click handler passes on
UseUwsm(expanded_cmd, config_uwsm) ==
    IF Contains(expanded_cmd, S_uwsm_app) THEN PyBool(FALSE) ELSE config_uwsm

IsBlank_no_strip(command) == command = <<>>

\* the command is blank: the handler returns at once
IsBlank(command) == Strip(command) = <<>>

\* _on_run_clicked(button, item_data) with self._terminal = term:
\* result "returned" or "raised" (an exception left the handler), the Popen
\* calls made, logged (the except clause printed "Error: ...")
_on_run_clicked(item_data, term, env, popen_ok) ==
    LET command == Get(item_data, "command", PyStr(<<>>))
    IN  IF command.t # "str"
        THEN \* command.strip(): AttributeError, before the try
             [t |-> "click", item |-> item_data, result |-> "raised", calls |-> <<>>,
              logged |-> FALSE, background |-> FALSE]
        ELSE IF IsBlank(command.s)
        THEN [t |-> "click", item |-> item_data, result |-> "returned", calls |-> <<>>,
              logged |-> FALSE, background |-> FALSE]
        ELSE LET expanded_cmd == expandvars(command.s, env)
                 use_terminal == Get(item_data, "terminal", PyBool(FALSE))
                 config_uwsm == Get(item_data, "use_uwsm", PyBool(TRUE))
                 use_uwsm == UseUwsm(expanded_cmd, config_uwsm)
                 r == IF Truthy(use_terminal)
                      THEN _spawn_terminal(term, expanded_cmd, popen_ok)
                      ELSE _spawn_process(expanded_cmd, use_uwsm, popen_ok)
             IN  \* except Exception as e: print(f"Error: {e}")
                 [t |-> "click", item |-> item_data, result |-> "returned",
                  calls |-> r.calls, logged |-> r.raised, background |-> r.background]

----------------------------------------------------------------------------
(* The inputs: environments, commands, items and configuration files *)

C_spaces == <<" ", " ">>
C_tab == <<" ", "\t">>
C_echo_hi == <<"e", "c", "h", "o", " ", "h", "i">>
C_ls_padded == <<" ", "l", "s", " ">>
C_uwsm_x == <<"u", "w", "s", "m", "-", "a", "p", "p", " ", "-", "-", " ", "x">>
C_var_L == <<"$", "L">>
C_brace_E == <<"$", "{", "E", "}">>
C_undef_U == <<"a", "$", "U">>
C_home == <<"$", "H", "/", "x">>
V_slash_h == <<"/", "h">>
T_tool == <<"T", "o", "o", "l">>
T_amp == <<"A", " ", "&", " ", "B">>
T_main == <<"M", "a", "i", "n">>

EmptyEnv == [n \in {} |-> <<>>]
SessionEnv == (<<"L">> :> S_uwsm_app) @@ (<<"E">> :> <<>>) @@ (<<"H">> :> V_slash_h)
Environs == {EmptyEnv, SessionEnv}

Commands ==
    {<<>>, C_spaces, C_tab, C_echo_hi, C_ls_padded, C_uwsm_x, C_var_L, C_brace_E,
     C_undef_U, C_home}

Absent == [t |-> "absent"]

\* what the command key of an item can hold: no key, a string, null, a number
CommandValues == {Absent, PyNone, PyInt(123)} \cup {PyStr(c) : c \in Commands}
FlagValues == {Absent, PyBool(TRUE), PyBool(FALSE)}

Opt(key, v) == IF v = Absent THEN EmptyEnv ELSE (key :> v)

Item(command, term, uwsm) ==
    PyDict([title |-> PyStr(T_tool), description |-> PyStr(T_amp)]
           @@ Opt("command", command) @@ Opt("terminal", term) @@ Opt("use_uwsm", uwsm))

Items == {Item(c, t, u) : c \in CommandValues, t \in FlagValues, u \in FlagValues}

Group(items) == PyDict([title |-> PyStr(T_amp), items |-> PyList(items)])
Page(groups) == PyDict([name |-> PyStr(T_main), groups |-> PyList(groups)])
OnePage(items) == PyDict([pages |-> PyList(<< Page(<< Group(items) >>) >>)])

\* documents whose root is a mapping of the documented shape
MappingDocs ==
    {OnePage(<<it>>) : it \in Items}
    \cup { OnePage(<<>>),
           PyDict([window |-> PyDict([title |-> PyStr(T_main), width |-> PyInt(800),
                                      height |-> PyInt(600)]),
                   pages |-> PyList(<< Page(<< Group(<<
                       Item(PyStr(C_echo_hi), PyBool(TRUE), Absent),
                       Item(PyStr(C_var_L), Absent, PyBool(TRUE)) >>) >>),
                       Page(<<>>) >>)]),
           PyDict([window |-> PyDict([title |-> PyStr(T_main)])]) }

\* mappings whose fields do not have the documented types
IllTypedDocs ==
    { PyDict([pages |-> PyInt(5)]),
      PyDict([pages |-> PyNone]),
      PyDict([window |-> PyStr(T_main), pages |-> PyList(<<>>)]),
      PyDict([window |-> PyDict([width |-> PyStr(T_main)]), pages |-> PyList(<<>>)]),
      PyDict([pages |-> PyList(<< PyStr(T_main) >>)]),
      PyDict([pages |-> PyList(<< PyDict([name |-> PyInt(1)]) >>)]),
      PyDict([pages |-> PyList(<< Page(<< PyDict([items |-> PyList(<< PyStr(T_tool) >>)]) >>) >>)]),
      PyDict([pages |-> PyList(<< Page(<< Group(<< PyDict([title |-> PyInt(1)]) >>) >>) >>)]) }

\* documents whose root is not a mapping, and the empty ones
OtherDocs ==
    { PyNone, EmptyDict, PyList(<<>>), PyStr(<<>>), PyInt(0), PyBool(FALSE),
      PyList(<< PyStr(T_tool) >>), PyStr(T_tool), PyInt(7), PyBool(TRUE) }

Parsed(v) == [kind |-> "parsed", data |-> v]

ConfigFiles ==
    { [kind |-> "missing", data |-> PyNone],
      [kind |-> "unreadable", data |-> PyNone],
      [kind |-> "unparseable", data |-> PyNone] }
    \cup {Parsed(v) : v \in MappingDocs \cup IllTypedDocs \cup OtherDocs}

----------------------------------------------------------------------------
(* The process *)

NoClick == [t |-> "noclick"]
NoProbe == [t |-> "noprobe"]

Init ==
    /\ pc = "boot"
    /\ restarts = 0
    /\ deps \in SUBSET AllDeps
    /\ path \in SUBSET TerminalNames
    /\ environ \in Environs
    /\ missing = <<>>
    /\ installCall = NoCall
    /\ exitStatus = -1
    /\ config = EmptyDict
    /\ terminal = PyNone
    /\ file = NoFile
    /\ rows = <<>>
    /\ click = NoClick
    /\ probe = NoProbe

\* app = DuskyControlCenter(): __init__, after the imports of the main part
DuskyControlCenter ==
    /\ pc = "main"
    /\ pc' = "constructed"
    /\ config' = EmptyDict
    /\ terminal' = PyNone
    /\ UNCHANGED <<restarts, deps, path, environ, missing, installCall, exitStatus,
                   file, rows, click, probe>>

\* do_startup: the configuration file is read in the state f it is in
do_startup ==
    /\ pc = "constructed"
    /\ \E f \in ConfigFiles :
         /\ file' = f
         /\ config' = load_config(f)
    /\ terminal' = find_terminal(path)
    /\ pc' = "started"
    /\ UNCHANGED <<restarts, deps, path, environ, missing, installCall, exitStatus,
                   rows, click, probe>>

\* do_activate: the window is presented, or an exception leaves do_activate
\* before win.present()
do_activate ==
    /\ pc = "started"
    /\ IF Activates(config)
       THEN /\ pc' = "running"
            /\ rows' = RunButtons(config)
       ELSE /\ pc' = "activate_failed"
            /\ rows' = <<>>
    /\ UNCHANGED <<restarts, deps, path, environ, missing, installCall, exitStatus,
                   config, terminal, file, click, probe>>

\* a click on the Run button of row i; the main loop goes on afterwards
RunClicked ==
    /\ pc = "running"
    /\ \E i \in 1..Len(rows), popen_ok \in BOOLEAN :
         click' = _on_run_clicked(rows[i], terminal, environ, popen_ok)
    /\ UNCHANGED <<pc, restarts, deps, path, environ, missing, installCall,
                   exitStatus, config, terminal, file, rows, probe>>

\* the window is closed: app.run returns
Quit ==
    /\ pc = "running"
    /\ pc' = "exited"
    /\ exitStatus' = 0
    /\ UNCHANGED <<restarts, deps, path, environ, missing, installCall, config,
                   terminal, file, rows, click, probe>>

Next ==
    \/ check_dependencies
    \/ DuskyControlCenter
    \/ do_startup
    \/ do_activate
    \/ RunClicked
    \/ Quit

Spec == Init /\ [][Next]_vars

----------------------------------------------------------------------------
(* build_terminal_cmd on its own: every terminal name, with and without wait *)

S_xterm == <<"x", "t", "e", "r", "m">>

ProbeInit ==
    /\ pc = "probe"
    /\ restarts = 0
    /\ deps = AllDeps
    /\ path = {}
    /\ environ = EmptyEnv
    /\ missing = <<>>
    /\ installCall = NoCall
    /\ exitStatus = -1
    /\ config = EmptyDict
    /\ terminal = PyNone
    /\ file = NoFile
    /\ rows = <<>>
    /\ click = NoClick
    /\ probe = NoProbe

ProbeCall ==
    /\ pc = "probe"
    /\ \E term \in TerminalNames \cup {S_xterm}, title \in {APP_TITLE, T_amp},
          shell_cmd \in Commands, wait \in BOOLEAN :
         probe' = [t |-> "probe", terminal |-> term, title |-> title,
                   shell_cmd |-> shell_cmd, wait |-> wait,
                   result |-> build_terminal_cmd(term, title, shell_cmd, wait)]
    /\ UNCHANGED <<pc, restarts, deps, path, environ, missing, installCall,
                   exitStatus, config, terminal, file, rows, click>>

ProbeNext == ProbeCall

ProbeSpec == ProbeInit /\ [][ProbeNext]_vars

----------------------------------------------------------------------------
(* The claims *)

MainPcs == {"main", "constructed", "started", "running", "activate_failed"}

\* C1: the main application is reached only when check_dependencies recorded
\* no missing package; once a package is recorded as missing the process has
\* either exited with a non-zero status or replaced its image to start over.
C1_OneShotGate ==
    /\ pc \in MainPcs => missing = <<>>
    /\ missing # <<>> =>
         \/ pc = "exited" /\ exitStatus # 0
         \/ pc = "boot" /\ restarts > 0

\* a successful install: the image was replaced and the check starts over
C1_Witness ==
    /\ missing # <<>>
    /\ pc = "boot"
    /\ restarts > 0
    /\ installCall # NoCall

\* the last click was on an item whose command is a string with a character
\* that is not whitespace
ClickedNonBlank ==
    /\ click # NoClick
    /\ "command" \in DOMAIN click.item.d
    /\ click.item.d.command.t = "str"
    /\ \E i \in 1..Len(click.item.d.command.s) :
         click.item.d.command.s[i] \notin Whitespace

\* the flag of the clicked item, with its default
ClickedFlag(key, default) ==
    IF key \in DOMAIN click.item.d THEN click.item.d[key].b ELSE default

ClickedExpanded == expandvars(click.item.d.command.s, environ)

HasToken(s) ==
    \E i \in 1..Len(s) : i + 7 <= Len(s) /\ SubSeq(s, i, i + 7) = S_uwsm_app

C3_TerminalAlwaysWrapped ==
    (ClickedNonBlank /\ ClickedFlag("terminal", FALSE) /\ terminal # PyNone) =>
        /\ Len(click.calls) = 1
        /\ click.calls[1].args =
             ArgV(<<S_uwsm_app, S_dashdash>>
                  \o build_terminal_cmd(terminal.s, APP_TITLE, ClickedExpanded, TRUE))
        /\ ~click.calls[1].shell

\* use_uwsm=false, terminal=true, a terminal resolved: still wrapped
C3_Witness ==
    /\ ClickedNonBlank
    /\ ClickedFlag("terminal", FALSE)
    /\ terminal = PyStr(foot)
    /\ ~ClickedFlag("use_uwsm", TRUE)
    /\ Len(click.calls) = 1
    /\ click.calls[1].args.l[1] = S_uwsm_app
    /\ click.calls[1].args.l[3] = foot

\* the last click was on an item whose command is a string of whitespace only
ClickedBlank ==
    /\ click # NoClick
    /\ "command" \in DOMAIN click.item.d
    /\ click.item.d.command.t = "str"
    /\ \A i \in 1..Len(click.item.d.command.s) :
         click.item.d.command.s[i] \in Whitespace

\* C4: a click on an item whose command is empty or whitespace only makes no
\* spawn call and the handler returns, for every value of the two flags.
C4_BlankIsNoOp ==
    ClickedBlank =>
        /\ click.calls = <<>>
        /\ click.result = "returned"
        /\ ~click.logged

\* a whitespace-only command on a terminal item
C4_Witness ==
    /\ ClickedBlank
    /\ click.item.d.command.s = C_tab
    /\ ClickedFlag("terminal", FALSE)
    /\ click.calls = <<>>

\* the file states the claim lists: missing, unreadable, unparseable, an
\* empty document, a mapping of the documented shape, a root that is not a
\* mapping
ListedFile ==
    \/ file.kind \in {"missing", "unreadable", "unparseable"}
    \/ file.kind = "parsed" /\ file.data \in MappingDocs \cup OtherDocs

\* C5: for every listed state of the configuration file the loaded
\* configuration is renderable: do_activate completes on it.
C5_AlwaysRenderable ==
    (ListedFile /\ pc \in {"running", "activate_failed"}) => pc = "running"

\* C6: every process the dispatcher spawns starts in a new session with
\* stdin, stdout and stderr discarded, and is not waited for.
C6_DetachedSpawn ==
    click # NoClick =>
        \A i \in 1..Len(click.calls) :
            /\ click.calls[i].start_new_session
            /\ click.calls[i].stdin = "DEVNULL"
            /\ click.calls[i].stdout = "DEVNULL"
            /\ click.calls[i].stderr = "DEVNULL"
            /\ ~click.calls[i].waited

\* the no-terminal fallback spawned a process
C6_Witness ==
    /\ click # NoClick
    /\ click.background
    /\ Len(click.calls) = 1
    /\ click.calls[1].start_new_session

\* the preference order the claim states
PreferenceOrder ==
    <<kitty, foot, alacritty, wezterm, gnome_terminal, konsole, xfce4_terminal>>

\* C7: find_terminal returns the earliest name of the preference order that
\* the search path resolves, and None when it resolves none of them.
C7_EarliestTerminal ==
    file # NoFile =>
        IF \A i \in 1..7 : PreferenceOrder[i] \notin path
        THEN terminal = PyNone
        ELSE \E i \in 1..7 :
                /\ terminal = PyStr(PreferenceOrder[i])
                /\ PreferenceOrder[i] \in path
                /\ \A j \in 1..(i - 1) : PreferenceOrder[j] \notin path

\* three terminals resolvable, the second of the order is returned
C7_Witness ==
    /\ pc = "started"
    /\ path = {xfce4_terminal, konsole, foot}
    /\ terminal = PyStr(foot)

\* C8: build_terminal_cmd returns a list that starts with the terminal and
\* ends with "sh", "-c", <command string>; with wait the command string is
\* the shell command followed by a suffix that starts with ";" and ends in
\* "; read", without wait it is the shell command itself.
C8_ShellTail ==
    probe # NoProbe =>
        LET r == probe.result
            n == Len(r)
            c == probe.shell_cmd
        IN  /\ n >= 4
            /\ r[1] = probe.terminal
            /\ r[n - 2] = S_sh
            /\ r[n - 1] = S_dash_c
            /\ IF probe.wait
               THEN /\ Len(r[n]) >= Len(c) + 7
                    /\ SubSeq(r[n], 1, Len(c)) = c
                    /\ r[n][Len(c) + 1] = ";"
                    /\ SubSeq(r[n], Len(r[n]) - 5, Len(r[n]))
                         = <<";", " ", "r", "e", "a", "d">>
               ELSE r[n] = c

\* the seventh terminal goes through the generic form, with wait
C8_Witness ==
    /\ probe # NoProbe
    /\ probe.terminal = xfce4_terminal
    /\ probe.wait
    /\ probe.shell_cmd = C_echo_hi
    /\ Len(probe.result) = 5

\* C9: no exception leaves _on_run_clicked, for any item of the loaded
\* configuration.
C9_HandlerNeverRaises ==
    click # NoClick => click.result = "returned"

\* C10: a click on an item with terminal=true and a non-blank command, with
\* no terminal resolved at startup, spawns exactly
\* ["uwsm-app", "--", "sh", "-c", expanded] as an argument list, whatever
\* use_uwsm says, and no terminal invocation.
C10_NoTerminalFallback ==
    (ClickedNonBlank /\ ClickedFlag("terminal", FALSE) /\ terminal = PyNone) =>
        /\ Len(click.calls) = 1
        /\ click.calls[1].args =
             ArgV(<<S_uwsm_app, S_dashdash, S_sh, S_dash_c, ClickedExpanded>>)
        /\ ~click.calls[1].shell

\* use_uwsm=false and the command holds the token: wrapped all the same
C10_Witness ==
    /\ ClickedNonBlank
    /\ ClickedFlag("terminal", FALSE)
    /\ terminal = PyNone
    /\ ~ClickedFlag("use_uwsm", TRUE)
    /\ click.item.d.command.s = C_uwsm_x
    /\ click.background
    /\ Len(click.calls) = 1

====
